---- MODULE Spec2Model ----
(***************************************************************************)
(* Model of src/app.py: the merged table, the two filtered copies taken   *)
(* from it (filter_minus_stock, filter_low_sales_items) and the pass of   *)
(* find_corresponding_items over them, one step per loop iteration.       *)
(*                                                                         *)
(* A table is a sequence of rows; a row's index label is its position in  *)
(* the merged table, counted from 0 as pandas' RangeIndex does.  Boolean  *)
(* indexing (df[mask]) copies the selected rows and keeps their labels,   *)
(* so minus_stock_items and low_sales_items are separate tables whose     *)
(* rows carry the label they had in df.                                   *)
(*                                                                         *)
(* A cell of the Price or Total Sales column is a record: a number, the   *)
(* missing value NaN, or a text that is no number.  Stock is an integer.  *)
(* A name is a sequence of characters.                                    *)
(***************************************************************************)
EXTENDS Integers, Sequences, FiniteSets

\* ------------------------------------------------------------------------
\* Bounds of the model
\* ------------------------------------------------------------------------
MaxRows == 3
MaxStock == 2

\* ------------------------------------------------------------------------
\* Program constants (default arguments)
\* ------------------------------------------------------------------------
low_sales_threshold == 5
similarity_threshold == 80
\* price_tolerance = 0.1, kept as the fraction price_tolerance_num / price_tolerance_den
price_tolerance_num == 1
price_tolerance_den == 10

\* ------------------------------------------------------------------------
\* Cells and numbers
\* ------------------------------------------------------------------------
NaN == [kind |-> "nan", val |-> 0]
Num(n) == [kind |-> "num", val |-> n]
Text == [kind |-> "text", val |-> 0]

\* pd.to_numeric(column, errors='coerce') on one cell
to_numeric(c) == IF c.kind = "num" THEN c ELSE NaN

\* pd.isnull on one cell
isnull(c) == c.kind = "nan"

\* Series.fillna(0) on one cell
fillna0(c) == IF isnull(c) THEN Num(0) ELSE c

Abs(n) == IF n < 0 THEN -n ELSE n
Min(a, b) == IF a <= b THEN a ELSE b
Max(a, b) == IF a >= b THEN a ELSE b

\* Scores, averages and ratios are floats in the program; here they are
\* exact fractions num/den with den > 0, compared by cross-multiplication.
Frac(n, d) == IF d < 0 THEN [num |-> -n, den |-> -d] ELSE [num |-> n, den |-> d]
FracLE(p, q) == p.num * q.den <= q.num * p.den
FracLT(p, q) == p.num * q.den < q.num * p.den

\* ------------------------------------------------------------------------
\* rapidfuzz: fuzz.partial_ratio and process.extract
\* ------------------------------------------------------------------------
\* Length of a longest common subsequence of two names
RECURSIVE LCS(_, _)
LCS(s, t) ==
    IF s = <<>> \/ t = <<>> THEN 0
    ELSE IF Head(s) = Head(t) THEN 1 + LCS(Tail(s), Tail(t))
    ELSE Max(LCS(Tail(s), t), LCS(s, Tail(t)))

\* fuzz.ratio: the normalised indel similarity, 100 * 2 * LCS / (|s| + |t|)
ratio(s, t) ==
    IF Len(s) + Len(t) = 0 THEN Frac(100, 1)
    ELSE Frac(200 * LCS(s, t), Len(s) + Len(t))

\* The windows of the longer name that the shorter one is aligned against:
\* the prefixes shorter than it, every substring of its length, and the
\* suffixes shorter than it.
Windows(short, long) ==
    LET m == Len(short)
        n == Len(long)
    IN  {SubSeq(long, 1, i) : i \in 1..(m - 1)}
        \cup {SubSeq(long, i, i + m - 1) : i \in 1..(n - m + 1)}
        \cup {SubSeq(long, i, n) : i \in (n - m + 2)..n}

\* fuzz.partial_ratio(s1, s2): the best ratio of the shorter name against a
\* window of the longer one
partial_ratio(s1, s2) ==
    LET short == IF Len(s1) <= Len(s2) THEN s1 ELSE s2
        long == IF Len(s1) <= Len(s2) THEN s2 ELSE s1
        scores == {ratio(short, w) : w \in Windows(short, long)}
    IN  IF Len(s1) = 0 /\ Len(s2) = 0 THEN Frac(100, 1)
        ELSE IF scores = {} THEN Frac(0, 1)
        ELSE CHOOSE b \in scores : \A o \in scores : FracLE(o, b)

\* The position that process.extract returns next among the positions S of
\* the choices: the best score, and the earliest choice among equal scores.
BestOf(query, choices, S) ==
    CHOOSE p \in S : \A q \in S :
        LET sp == partial_ratio(query, choices[p].name)
            sq == partial_ratio(query, choices[q].name)
        IN  FracLT(sq, sp) \/ (~FracLT(sp, sq) /\ p <= q)

RECURSIVE SortMatches(_, _, _)
SortMatches(query, choices, S) ==
    IF S = {} THEN <<>>
    ELSE LET p == BestOf(query, choices, S)
         IN  <<[match_name |-> choices[p].name,
                match_score |-> partial_ratio(query, choices[p].name),
                match_idx |-> choices[p].idx]>>
             \o SortMatches(query, choices, S \ {p})

\* process.extract(query, series, scorer=fuzz.partial_ratio, limit=None):
\* one (choice, score, key) per row of the series, the key being the row's
\* index label, ordered by score, best first.
extract(query, choices) == SortMatches(query, choices, DOMAIN choices)

\* ------------------------------------------------------------------------
\* Input tables
\* ------------------------------------------------------------------------
\* Item names: "a" and "b" are each contained in "ab" and share nothing
\* with each other.
Names == {<<"a">>, <<"b">>, <<"a", "b">>}

\* Stock values: a large and a small deficit, a small surplus and a surplus
\* that covers the large deficit.
Stocks == {-MaxStock, -1, 1, MaxStock}

\* Total Sales cells: missing (no row in the sales file) or above the
\* low-sales threshold
SalesVals == {NaN, Num(low_sales_threshold + 1)}

\* Price cells
BasePrice == Num(10)
PriceVals == {NaN, Text, Num(-30), Num(-10), Num(10), Num(11), Num(20)}

\* A merged table with the given columns; every row has its own barcode.
MakeTable(names, stocks, sales, prices) ==
    [i \in DOMAIN names |->
        [name |-> names[i], stock |-> stocks[i], sales |-> sales[i],
         price |-> prices[i], barcode |-> i]]

\* ------------------------------------------------------------------------
\* Filters (the copies taken before the pass)
\* ------------------------------------------------------------------------
\* df[mask]: the rows of t at the positions in mask, in order, each with its
\* label
RECURSIVE Select(_, _, _)
Select(t, mask, i) ==
    IF i > Len(t) THEN <<>>
    ELSE (IF i \in mask
          THEN <<[idx |-> i - 1, name |-> t[i].name, stock |-> t[i].stock,
                  sales |-> t[i].sales, price |-> t[i].price,
                  barcode |-> t[i].barcode]>>
          ELSE <<>>)
         \o Select(t, mask, i + 1)

\* df['Stock'] < 0
IsMinus(t) == {i \in DOMAIN t : t[i].stock < 0}
filter_minus_stock(t) == Select(t, IsMinus(t), 1)

\* df['Total Sales'] = pd.to_numeric(...).fillna(0), in place
CoerceSales(t) == [i \in DOMAIN t |-> [t[i] EXCEPT !.sales = fillna0(to_numeric(@))]]

\* df['Total Sales'] <= low_sales_threshold
IsLowSales(t) == {i \in DOMAIN t : t[i].sales.val <= low_sales_threshold}
filter_low_sales_items(t) == Select(CoerceSales(t), IsLowSales(CoerceSales(t)), 1)

CoercePrice(t) == [i \in DOMAIN t |-> [t[i] EXCEPT !.price = to_numeric(@)]]

\* ------------------------------------------------------------------------
\* find_corresponding_items: the price test and the stock updates
\* ------------------------------------------------------------------------
\* price_difference = abs(minus_price - related_item_price)
price_difference(mp, rp) == Abs(mp - rp)

\* average_price == 0, for average_price = (minus_price + related_item_price) / 2
average_is_zero(mp, rp) == mp + rp = 0

\* price_difference_ratio = price_difference / average_price, as a fraction
price_difference_ratio(mp, rp) == Frac(2 * price_difference(mp, rp), mp + rp)

\* The tolerance test left out
within_tolerance_always(mp, rp) == TRUE

\* price_difference_ratio <= price_tolerance
within_tolerance(mp, rp) ==
    FracLE(price_difference_ratio(mp, rp), Frac(price_tolerance_num, price_tolerance_den))

\* The nearest integer to n / d (d > 0), the even one of two equally near
RoundHalfEven(n, d) ==
    LET q == n \div d
        r == n - q * d
    IN  IF 2 * r < d THEN q
        ELSE IF 2 * r > d THEN q + 1
        ELSE IF q % 2 = 0 THEN q ELSE q + 1

\* round(price_difference_ratio * 100, 2), in hundredths of a percent
price_difference_pct(mp, rp) ==
    LET f == price_difference_ratio(mp, rp)
    IN  RoundHalfEven(f.num * 10000, f.den)

\* The transfer not capped by the deficit
transfer_amount_uncapped(related_item_stock, ms) == related_item_stock

\* transfer_amount = min(related_item_stock, abs(minus_stock))
transfer_amount(related_item_stock, ms) == Min(related_item_stock, Abs(ms))

\* df.loc[df['Nama Item'] == item, 'Stock'] += delta
AddStock(t, item, delta) ==
    [i \in DOMAIN t |-> IF t[i].name = item THEN [t[i] EXCEPT !.stock = @ + delta] ELSE t[i]]

\* The suggestion put at the front of the list
AppendSuggestion_front(ts, sug) == <<sug>> \o ts

\* transfer_suggestions.append(...)
AppendSuggestion(ts, sug) == Append(ts, sug)

\* ------------------------------------------------------------------------
\* State
\* ------------------------------------------------------------------------
VARIABLES
    df,                   \* the merged table, whose Stock the pass updates
    minus_stock_items,    \* copy of the rows of df with Stock < 0
    low_sales_items,      \* copy of the rows of df with Total Sales <= 5
    pc,                   \* "coerce", "row", "scan", "after", "done", "error"
    row,                  \* position of the outer loop in minus_stock_items
    minus_stock,          \* the outer loop's local minus_stock
    suggestion_found,     \* the outer loop's local flag
    possible_matches,     \* the list returned by process.extract
    k,                    \* position of the inner loop in possible_matches
    transfer_suggestions,
    no_suggestions

vars == <<df, minus_stock_items, low_sales_items, pc, row, minus_stock,
          suggestion_found, possible_matches, k, transfer_suggestions,
          no_suggestions>>

\* The state on entry to find_corresponding_items(merged_data,
\* minus_stock_items, low_sales_items), for a merged table t
EntryState(t) ==
    /\ df = CoerceSales(t)
    /\ minus_stock_items = filter_minus_stock(t)
    /\ low_sales_items = filter_low_sales_items(t)
    /\ pc = "coerce"
    /\ row = 1
    /\ minus_stock = 0
    /\ suggestion_found = FALSE
    /\ possible_matches = <<>>
    /\ k = 1
    /\ transfer_suggestions = <<>>
    /\ no_suggestions = <<>>

\* A table of up to MaxRows rows: any names (repeated names included), any
\* stocks, any sales, one price throughout
InitAlloc ==
    \E n \in 1..MaxRows :
        \E ns \in [1..n -> Names], st \in [1..n -> Stocks], sl \in [1..n -> SalesVals] :
            EntryState(MakeTable(ns, st, sl, [i \in 1..n |-> BasePrice]))

\* A table of a deficit item and a similarly named item: any prices
InitPrice ==
    \E s \in {0, 1, MaxStock}, p1 \in PriceVals, p2 \in PriceVals :
        EntryState(MakeTable(<< <<"a">>, <<"a", "b">> >>, <<-MaxStock, s>>,
                             <<NaN, NaN>>, <<p1, p2>>))

Init == InitAlloc \/ InitPrice

\* The row of the outer loop and the tuple of the inner loop
minus_row == minus_stock_items[row]
match == possible_matches[k]
\* low_sales_items.iloc[match_idx]: the row at that position, from 0
related_item == low_sales_items[match.match_idx + 1]

\* Lines 39-41: the Price columns of the three tables become numeric
CoercePrices ==
    /\ pc = "coerce"
    /\ df' = CoercePrice(df)
    /\ low_sales_items' = CoercePrice(low_sales_items)
    /\ minus_stock_items' = CoercePrice(minus_stock_items)
    /\ pc' = "row"
    /\ UNCHANGED <<row, minus_stock, suggestion_found, possible_matches, k,
                   transfer_suggestions, no_suggestions>>

\* Lines 43-51: a deficit row whose price is missing is skipped
SkipRow ==
    /\ pc = "row"
    /\ row <= Len(minus_stock_items)
    /\ isnull(minus_row.price)
    /\ minus_stock' = minus_row.stock
    /\ suggestion_found' = FALSE
    /\ row' = row + 1
    /\ UNCHANGED <<df, minus_stock_items, low_sales_items, pc, possible_matches, k,
                   transfer_suggestions, no_suggestions>>

\* Lines 43-59: a deficit row with a price is matched against the names of
\* low_sales_items
BeginScan ==
    /\ pc = "row"
    /\ row <= Len(minus_stock_items)
    /\ ~isnull(minus_row.price)
    /\ minus_stock' = minus_row.stock
    /\ suggestion_found' = FALSE
    /\ possible_matches' = extract(minus_row.name, low_sales_items)
    /\ k' = 1
    /\ pc' = "scan"
    /\ UNCHANGED <<df, minus_stock_items, low_sales_items, row,
                   transfer_suggestions, no_suggestions>>

\* Lines 62-63: a match below the threshold is passed over
ScanBelowThreshold ==
    /\ pc = "scan"
    /\ k <= Len(possible_matches)
    /\ FracLT(match.match_score, Frac(similarity_threshold, 1))
    /\ k' = k + 1
    /\ UNCHANGED <<df, minus_stock_items, low_sales_items, pc, row, minus_stock,
                   suggestion_found, possible_matches, transfer_suggestions,
                   no_suggestions>>

\* Line 64: iloc raises IndexError for a position past the end
ScanIndexError ==
    /\ pc = "scan"
    /\ k <= Len(possible_matches)
    /\ ~FracLT(match.match_score, Frac(similarity_threshold, 1))
    /\ match.match_idx >= Len(low_sales_items)
    /\ pc' = "error"
    /\ UNCHANGED <<df, minus_stock_items, low_sales_items, row, minus_stock,
                   suggestion_found, possible_matches, k, transfer_suggestions,
                   no_suggestions>>

\* Lines 70-85: the tests that let a fetched row become a source
Qualifies(r) ==
    /\ ~isnull(r.price)
    /\ r.stock > 0
    /\ ~average_is_zero(minus_row.price.val, r.price.val)
    /\ within_tolerance(minus_row.price.val, r.price.val)
    /\ transfer_amount(r.stock, minus_stock) > 0

\* Lines 64-85: a fetched row that fails a test is passed over
ScanSkipCandidate ==
    /\ pc = "scan"
    /\ k <= Len(possible_matches)
    /\ ~FracLT(match.match_score, Frac(similarity_threshold, 1))
    /\ match.match_idx < Len(low_sales_items)
    /\ ~Qualifies(related_item)
    /\ k' = k + 1
    /\ UNCHANGED <<df, minus_stock_items, low_sales_items, pc, row, minus_stock,
                   suggestion_found, possible_matches, transfer_suggestions,
                   no_suggestions>>

\* Lines 64-100: a transfer from the fetched row is recorded and applied
ScanTransfer ==
    /\ pc = "scan"
    /\ k <= Len(possible_matches)
    /\ ~FracLT(match.match_score, Frac(similarity_threshold, 1))
    /\ match.match_idx < Len(low_sales_items)
    /\ Qualifies(related_item)
    /\ LET amount == transfer_amount(related_item.stock, minus_stock)
       IN  /\ suggestion_found' = TRUE
           /\ transfer_suggestions' = AppendSuggestion(transfer_suggestions,
                 [from_item |-> related_item.name,
                  from_barcode |-> related_item.barcode,
                  to_item |-> minus_row.name,
                  to_barcode |-> minus_row.barcode,
                  amount |-> amount,
                  price_difference_pct |->
                      price_difference_pct(minus_row.price.val, related_item.price.val)])
           /\ df' = AddStock(AddStock(df, related_item.name, -amount),
                             minus_row.name, amount)
           /\ minus_stock' = minus_stock + amount
           /\ IF minus_stock + amount >= 0
              THEN pc' = "after" /\ k' = k
              ELSE pc' = "scan" /\ k' = k + 1
    /\ UNCHANGED <<minus_stock_items, low_sales_items, row, possible_matches,
                   no_suggestions>>

\* Line 62: the inner loop runs out of matches
EndScan ==
    /\ pc = "scan"
    /\ k > Len(possible_matches)
    /\ pc' = "after"
    /\ UNCHANGED <<df, minus_stock_items, low_sales_items, row, minus_stock,
                   suggestion_found, possible_matches, k, transfer_suggestions,
                   no_suggestions>>

\* Lines 102-109: a row that received nothing is listed
AfterScan ==
    /\ pc = "after"
    /\ no_suggestions' =
          IF suggestion_found THEN no_suggestions
          ELSE Append(no_suggestions,
                      [name |-> minus_row.name, barcode |-> minus_row.barcode,
                       stock |-> minus_stock, price |-> minus_row.price])
    /\ row' = row + 1
    /\ pc' = "row"
    /\ UNCHANGED <<df, minus_stock_items, low_sales_items, minus_stock,
                   suggestion_found, possible_matches, k, transfer_suggestions>>

\* Lines 111-113: the outer loop is over and the two results are returned
Finish ==
    /\ pc = "row"
    /\ row > Len(minus_stock_items)
    /\ pc' = "done"
    /\ UNCHANGED <<df, minus_stock_items, low_sales_items, row, minus_stock,
                   suggestion_found, possible_matches, k, transfer_suggestions,
                   no_suggestions>>

Next ==
    \/ CoercePrices
    \/ SkipRow
    \/ BeginScan
    \/ ScanBelowThreshold
    \/ ScanIndexError
    \/ ScanSkipCandidate
    \/ ScanTransfer
    \/ EndScan
    \/ AfterScan
    \/ Finish

Spec == Init /\ [][Next]_vars

\* ------------------------------------------------------------------------
\* Reading the results
\* ------------------------------------------------------------------------
\* The position in table t of the row with barcode b
PosOf(t, b) == CHOOSE i \in DOMAIN t : t[i].barcode = b

\* The stock a row had when the copies were taken
SourceStock(b) == low_sales_items[PosOf(low_sales_items, b)].stock
DeficitStock(b) == minus_stock_items[PosOf(minus_stock_items, b)].stock

\* What the first n suggestions took out of row b, and what they gave to it
RECURSIVE TakenOut(_, _)
TakenOut(b, n) ==
    IF n = 0 THEN 0
    ELSE TakenOut(b, n - 1)
         + (IF transfer_suggestions[n].from_barcode = b
            THEN transfer_suggestions[n].amount ELSE 0)

RECURSIVE Received(_, _)
Received(b, n) ==
    IF n = 0 THEN 0
    ELSE Received(b, n - 1)
         + (IF transfer_suggestions[n].to_barcode = b
            THEN transfer_suggestions[n].amount ELSE 0)

RECURSIVE SumStock(_, _)
SumStock(t, n) == IF n = 0 THEN 0 ELSE SumStock(t, n - 1) + t[n].stock

DistinctNames == \A i, j \in DOMAIN df : i # j => df[i].name # df[j].name

\* A table of distinct names in which every row is a low-sales candidate, so
\* that a row's position in low_sales_items is its label
PlainTable == DistinctNames /\ Len(low_sales_items) = Len(df)

Suggested == DOMAIN transfer_suggestions
Threshold == Frac(similarity_threshold, 1)

\* ------------------------------------------------------------------------
\* C1
\* ------------------------------------------------------------------------
\* C1: every recorded transfer amount is positive and is at most what the
\* source row still has (its original stock less what earlier suggestions
\* took out of it) and at most what the destination row still lacks (its
\* original deficit less what earlier suggestions gave it); so a source
\* that has nothing left is never used.  Stated for the tables in which the
\* source row of a suggestion is not in doubt: distinct names, every row a
\* candidate.
C1_AmountWithinAvailable ==
    PlainTable =>
        \A n \in Suggested :
            LET sug == transfer_suggestions[n]
            IN  /\ sug.amount > 0
                /\ sug.amount <= SourceStock(sug.from_barcode)
                                     - TakenOut(sug.from_barcode, n - 1)
                /\ sug.amount <= -(DeficitStock(sug.to_barcode)
                                       + Received(sug.to_barcode, n - 1))

\* ------------------------------------------------------------------------
\* C2
\* ------------------------------------------------------------------------
\* C2: over the whole pass, the amounts taken from one candidate row add up
\* to at most the stock the row started with.  Stated for the tables in
\* which the source row of a suggestion is not in doubt: distinct names,
\* every row a candidate.
C2_TakenWithinOriginalStock ==
    PlainTable =>
        \A i \in DOMAIN low_sales_items :
            TakenOut(low_sales_items[i].barcode, Len(transfer_suggestions))
                <= Max(low_sales_items[i].stock, 0)

\* ------------------------------------------------------------------------
\* C3
\* ------------------------------------------------------------------------
\* C3: when the pass has returned, every deficit row is the destination of
\* a suggestion or is listed in no_suggestions.
C3_NoDeficitLost ==
    pc = "done" =>
        \A i \in DOMAIN minus_stock_items :
            \/ \E n \in Suggested :
                  transfer_suggestions[n].to_barcode = minus_stock_items[i].barcode
            \/ \E n \in DOMAIN no_suggestions :
                  no_suggestions[n].barcode = minus_stock_items[i].barcode

\* ------------------------------------------------------------------------
\* C4
\* ------------------------------------------------------------------------
\* C4: the row recorded as 'From Item' of a suggestion has a name that
\* scores at least similarity_threshold against the 'To Item' name.
C4_SourceNameMatches ==
    \A n \in Suggested :
        ~FracLT(partial_ratio(transfer_suggestions[n].to_item,
                              transfer_suggestions[n].from_item), Threshold)

\* ------------------------------------------------------------------------
\* C5
\* ------------------------------------------------------------------------
\* C5: for every suggestion, the prices of its destination row and of its
\* source row are both present, their average is not zero, and
\* |deficitPrice - candidatePrice| / ((deficitPrice + candidatePrice) / 2)
\* does not exceed price_tolerance (the division written out by the sign
\* of the sum).
C5_PriceTestsPassed ==
    \A n \in Suggested :
        LET sug == transfer_suggestions[n]
            mc == minus_stock_items[PosOf(minus_stock_items, sug.to_barcode)].price
            rc == low_sales_items[PosOf(low_sales_items, sug.from_barcode)].price
            total == mc.val + rc.val
            diff == Abs(mc.val - rc.val)
        IN  /\ mc.kind = "num"
            /\ rc.kind = "num"
            /\ total # 0
            /\ total > 0 => 2 * diff * price_tolerance_den <= price_tolerance_num * total
            /\ total < 0 => 2 * diff * price_tolerance_den >= price_tolerance_num * total

\* A pass that ended without a suggestion for a deficit item priced 10 whose
\* only similarly named candidate has stock and is priced 20
C5_Witness ==
    /\ pc = "done"
    /\ Len(df) = 2
    /\ df[1].price = Num(10) /\ df[1].stock < 0
    /\ df[2].price = Num(20) /\ df[2].stock > 0
    /\ ~FracLT(partial_ratio(df[1].name, df[2].name), Threshold)
    /\ Len(low_sales_items) = 2
    /\ transfer_suggestions = <<>>
    /\ Len(no_suggestions) = 1

\* ------------------------------------------------------------------------
\* C6
\* ------------------------------------------------------------------------
\* C6: the pass raises no error.
C6_NeverRaises == pc # "error"

\* ------------------------------------------------------------------------
\* C7
\* ------------------------------------------------------------------------
\* C7: in every step, minus_stock is never above 0; the scan goes on only
\* while minus_stock is below 0; a step that records a suggestion is a step
\* of the scan of the current deficit row, names that row as destination,
\* brings |minus_stock| strictly down by the amount and ends the scan when
\* minus_stock reaches 0; once the scan of a row has ended nothing more is
\* recorded for it (the outer loop only moves forward); and, in a table of
\* distinct names, the Stock of every deficit row in df stays <= 0 and
\* equals minus_stock while the row is scanned.
C7_ScanStep ==
    /\ minus_stock <= 0 /\ minus_stock' <= 0
    /\ pc' = "scan" => minus_stock' < 0
    /\ row' >= row
    /\ pc = "after" => row' = row + 1 /\ transfer_suggestions' = transfer_suggestions
    /\ Len(transfer_suggestions') > Len(transfer_suggestions) =>
          LET sug == transfer_suggestions'[Len(transfer_suggestions')]
          IN  /\ pc = "scan"
              /\ row' = row
              /\ sug.to_barcode = minus_row.barcode
              /\ Abs(minus_stock') < Abs(minus_stock)
              /\ Abs(minus_stock') = Abs(minus_stock) - sug.amount
              /\ minus_stock' >= 0 => pc' = "after"
    /\ DistinctNames =>
          /\ \A i \in DOMAIN minus_stock_items :
                df'[PosOf(df', minus_stock_items[i].barcode)].stock <= 0
          /\ pc' = "scan" =>
                df'[PosOf(df', minus_stock_items'[row'].barcode)].stock = minus_stock'

\* C7: every step of the pass is such a step.
C7_ScanDecreasesAndStops == [][C7_ScanStep]_vars

\* Two transfers to the same deficit row, the second of which filled it
C7_Witness ==
    /\ pc = "after"
    /\ minus_stock = 0
    /\ Len(transfer_suggestions) = 2
    /\ transfer_suggestions[1].to_barcode = transfer_suggestions[2].to_barcode

\* ------------------------------------------------------------------------
\* C8
\* ------------------------------------------------------------------------
\* The place in the matcher's list for deficit name q of the candidate row
\* with barcode b
RankOf(q, b) ==
    LET pm == extract(q, low_sales_items)
    IN  CHOOSE n \in DOMAIN pm : pm[n].match_idx + 1 = PosOf(low_sales_items, b)

\* C8: in a table of distinct names, of two suggestions the earlier one is
\* for a deficit row that comes no later in minus_stock_items, and, when
\* both are for the same row, its source comes earlier in the matcher's
\* list for that row.
C8_SuggestionOrder ==
    DistinctNames =>
        \A m, n \in Suggested :
            m < n =>
                LET sm == transfer_suggestions[m]
                    sn == transfer_suggestions[n]
                    pm == PosOf(minus_stock_items, sm.to_barcode)
                    pn == PosOf(minus_stock_items, sn.to_barcode)
                IN  /\ pm <= pn
                    /\ pm = pn => RankOf(sm.to_item, sm.from_barcode)
                                      < RankOf(sn.to_item, sn.from_barcode)

\* A finished pass over distinct names with suggestions for two deficit rows
C8_Witness ==
    /\ pc = "done"
    /\ DistinctNames
    /\ Len(transfer_suggestions) = 2
    /\ transfer_suggestions[1].to_barcode < transfer_suggestions[2].to_barcode

\* ------------------------------------------------------------------------
\* C9
\* ------------------------------------------------------------------------
\* C9: the recorded 'Price Difference (%)' lies between 0 and
\* 100 * price_tolerance (compared in hundredths of a percent).
C9_PctWithinTolerance ==
    \A n \in Suggested :
        /\ transfer_suggestions[n].price_difference_pct >= 0
        /\ transfer_suggestions[n].price_difference_pct * price_tolerance_den
               <= 10000 * price_tolerance_num

\* ------------------------------------------------------------------------
\* C10
\* ------------------------------------------------------------------------
\* C10: every step of the pass keeps the sum of the Stock column; a step
\* that records a transfer debits the source row and credits the
\* destination row by the amount and leaves every other row's stock alone,
\* and any other step leaves every stock alone.
C10_StockConservedStep ==
    /\ SumStock(df', Len(df')) = SumStock(df, Len(df))
    /\ IF Len(transfer_suggestions') > Len(transfer_suggestions)
       THEN LET sug == transfer_suggestions'[Len(transfer_suggestions')]
            IN  \A i \in DOMAIN df :
                   df'[i].stock = df[i].stock
                       - (IF df[i].barcode = sug.from_barcode THEN sug.amount ELSE 0)
                       + (IF df[i].barcode = sug.to_barcode THEN sug.amount ELSE 0)
       ELSE \A i \in DOMAIN df : df'[i].stock = df[i].stock

\* C10: every step of the pass conserves stock in this way.
C10_StockConserved == [][C10_StockConservedStep]_vars

====
